---- MODULE Spec2Model ----
(***************************************************************************)
(* Model of app/main.py: the translation service with a priority queue     *)
(* (asyncio.PriorityQueue over heapq), one background worker, per-request  *)
(* futures and Prometheus metrics.                                         *)
(*                                                                         *)
(* Scheduling.  Everything declared `async def` runs on one event loop, so *)
(* a coroutine runs without interruption from one suspending await to the  *)
(* next.  translate() suspends only at `await future` (put() on an         *)
(* unbounded queue never suspends); worker_loop() suspends only in         *)
(* task_queue.get() when the queue is empty (translate_text is a plain     *)
(* synchronous call).  health() is a plain `def`, which the framework runs *)
(* on a thread of its own, so it can read at any moment.                   *)
(*                                                                         *)
(* Queue items are the tuples (priority, created_at, text, future) of      *)
(* line 256; heapq orders them by Python's tuple comparison.               *)
(***************************************************************************)
EXTENDS Integers, Sequences, FiniteSets, TLC

\* ------------------------------------------------------------------------
\* Bounds of the model
\* ------------------------------------------------------------------------
MaxJobs == 3
MaxTime == 1

\* ------------------------------------------------------------------------
\* Program constants and input sets
\* ------------------------------------------------------------------------
MIN_PRIORITY == 0
MAX_PRIORITY == 3

PriorityLabels == MIN_PRIORITY..MAX_PRIORITY
ReqPriorities == {MIN_PRIORITY - 1, MIN_PRIORITY, MAX_PRIORITY, MAX_PRIORITY + 1}
Texts == {"a", "b"}

\* Python's str ordering on the request texts ("a" < "b").
TextOrd(t) == IF t = "a" THEN 1 ELSE 2

\* The processor's output for a text (translate_text is a function of its
\* input once the model is loaded).
TranslatedText(t) == IF t = "a" THEN "fr-a" ELSE "fr-b"

ProcessorError == "processor error"

VARIABLES
    model_loaded,       \* model is not None and tokenizer is not None
    now,                \* the value the last call of time.time() returned
    task_queue,         \* task_queue._queue: the heap list of items
    unfinished_tasks,   \* task_queue._unfinished_tasks
    futures,            \* the futures created by translate, by creation order
    requests,           \* the translate() calls that created them: their locals
    worker,             \* worker_loop: position and locals
    cancel_requested,   \* worker_task.cancel() was called, not yet delivered
    shutdown,           \* position of shutdown_event
    REQUEST_COUNTER,
    LATENCY_HISTOGRAM,  \* number of observations per priority label
    QUEUE_TIME_HISTOGRAM,
    IN_PROGRESS,
    response,           \* the HTTP response the step just taken has sent, if
                        \* that step ended a translate() or a health() call
    dequeue_count,      \* history: number of items get() has returned
    set_calls,          \* history: set_result/set_exception calls per future
    put_count,          \* history: items pushed onto the heap, per priority
    get_calls,          \* history: times get() has returned a future's item
    proc_calls          \* history: translate_text calls per future's item

vars == <<model_loaded, now, task_queue, unfinished_tasks, futures, requests,
          worker, cancel_requested, shutdown, REQUEST_COUNTER,
          LATENCY_HISTOGRAM, QUEUE_TIME_HISTOGRAM, IN_PROGRESS, response,
          dequeue_count, set_calls, put_count, get_calls, proc_calls>>

\* The history variables: they record what has happened and steer nothing.
history == <<dequeue_count, set_calls, put_count, get_calls, proc_calls>>

metrics == <<REQUEST_COUNTER, LATENCY_HISTOGRAM, QUEUE_TIME_HISTOGRAM, IN_PROGRESS>>

\* ------------------------------------------------------------------------
\* Values
\* ------------------------------------------------------------------------
NoItem == [priority |-> 0, created_at |-> 0, text |-> "", future |-> 0]

NoResult == [original_text |-> "", translated_text |-> "", priority |-> 0,
             processing_time |-> 0, queued_time |-> 0, model_loaded |-> FALSE]

\* loop.create_future() (line 253).
NewFuture == [state |-> "pending", result |-> NoResult, exception |-> ""]

\* A future nothing refers to any more: its translate() call has ended and
\* the worker has finished with its queue item.
Released == [state |-> "released", result |-> NoResult, exception |-> ""]

\* The locals of a translate() call that has ended.
EndedRequest == [priority |-> 0, text |-> "", start_total |-> 0, pc |-> "done"]

\* No response sent by the step just taken.  total_latency is not part of
\* any response body: it is the value the step observed into
\* LATENCY_HISTOGRAM (line 270), kept with the response it belongs to.
NoAnswer == [kind |-> "none", status |-> 0, detail |-> "", priority |-> 0,
             text |-> "", body |-> NoResult, model_loaded |-> FALSE,
             queue_size |-> 0, total_latency |-> 0]

IdleWorker == [pc |-> "ready", item |-> NoItem, start_proc |-> 0, queue_time |-> 0]

ZeroMetric == [p \in PriorityLabels |-> 0]

\* ------------------------------------------------------------------------
\* Python tuple comparison of two queue items, as heapq evaluates `a < b`:
\* the first differing component decides; two items that agree on priority,
\* created_at and text are compared by their futures, which define no
\* ordering, so the comparison raises TypeError.
\* ------------------------------------------------------------------------
ItemLt(a, b) ==
    IF a.priority # b.priority THEN
        (IF a.priority < b.priority THEN "true" ELSE "false")
    ELSE IF a.created_at # b.created_at THEN
        (IF a.created_at < b.created_at THEN "true" ELSE "false")
    ELSE IF a.text # b.text THEN
        (IF TextOrd(a.text) < TextOrd(b.text) THEN "true" ELSE "false")
    ELSE IF a.future # b.future THEN "TypeError"
    ELSE "false"

Swap(h, i, j) == [h EXCEPT ![i] = h[j], ![j] = h[i]]

\* heapq's siftdown, called by heappush under put() (line 256) and by siftup.
\* Positions are 1-based here: the parent of pos is pos \div 2.
RECURSIVE siftdown(_, _, _)
siftdown(h, startpos, pos) ==
    IF pos > startpos THEN
        LET parentpos == pos \div 2
            cmp == ItemLt(h[pos], h[parentpos])
        IN  IF cmp = "TypeError" THEN [heap |-> h, raised |-> TRUE]
            ELSE IF cmp = "false" THEN [heap |-> h, raised |-> FALSE]
            ELSE siftdown(Swap(h, pos, parentpos), startpos, parentpos)
    ELSE [heap |-> h, raised |-> FALSE]

\* heapq's siftup, called by heappop under get() (line 130): bubble the
\* smaller child up until a leaf is reached, then sift down.
RECURSIVE siftup_from(_, _, _)
siftup_from(h, startpos, pos) ==
    IF pos <= Len(h) \div 2 THEN
        LET left == 2 * pos
            cmp == IF left + 1 <= Len(h) THEN ItemLt(h[left], h[left + 1])
                   ELSE "true"
            childpos == IF cmp = "true" THEN left ELSE left + 1
        IN  IF cmp = "TypeError" THEN [heap |-> h, raised |-> TRUE]
            ELSE siftup_from(Swap(h, pos, childpos), startpos, childpos)
    ELSE siftdown(h, startpos, pos)

siftup(h, pos) == siftup_from(h, pos, pos)

\* heapq.heappush: append, then sift down; the item stays in the list when
\* the comparison raises.
heappush(h, item) == siftdown(Append(h, item), 1, Len(h) + 1)

\* A get() that hands out the head of the queue and leaves it queued.
heappop_keeps_head(h) == [heap |-> h, item |-> h[1], raised |-> FALSE]

\* heapq.heappop: the last element replaces the root and is sifted; when
\* the comparison raises, the former root has left the list already.
heappop(h) ==
    LET lastelt == h[Len(h)]
        rest == SubSeq(h, 1, Len(h) - 1)
    IN  IF rest = <<>> THEN [heap |-> rest, item |-> lastelt, raised |-> FALSE]
        ELSE LET r == siftup([rest EXCEPT ![1] = lastelt], 1)
             IN  [heap |-> r.heap, item |-> rest[1], raised |-> r.raised]

QueuedFutures == {task_queue[i].future : i \in 1..Len(task_queue)}

\* The worker holds the event loop between leaving get() and entering it again.
WorkerRunning == worker.pc \in {"loop", "dequeued"}

\* A translate() call holds the event loop between put() (line 256) and its
\* suspension at `await future` (line 265).
TranslateRunning == \E f \in 1..Len(requests) : requests[f].pc = "put"

\* Some coroutine holds the event loop: no other coroutine can take a step.
\* Only health(), on its own thread, runs meanwhile.
LoopBusy == WorkerRunning \/ TranslateRunning

\* A clock whose reads are in no order.
ClockValues_unordered == 0..MaxTime

\* time.time() never goes back in this model: a call returns a value that
\* is at least the value the previous call returned.
ClockValues == {c \in 0..MaxTime : c >= now}

\* A histogram that drops what it is given.
Observe_dropped(h, p) == h

\* Histogram.labels(priority=p).observe(v) (lines 141 and 270): one more
\* observation under the label p.
Observe(h, p) == [h EXCEPT ![p] = @ + 1]

\* ------------------------------------------------------------------------
\* Initial state: startup_event has run (the model loaded or failed to) and
\* created the worker task, which has not run yet.
\* ------------------------------------------------------------------------
Init ==
    /\ model_loaded \in BOOLEAN
    /\ now = 0
    /\ task_queue = <<>>
    /\ unfinished_tasks = 0
    /\ futures = <<>>
    /\ requests = <<>>
    /\ worker = IdleWorker
    /\ cancel_requested = FALSE
    /\ shutdown = "none"
    /\ REQUEST_COUNTER = ZeroMetric
    /\ LATENCY_HISTOGRAM = ZeroMetric
    /\ QUEUE_TIME_HISTOGRAM = ZeroMetric
    /\ IN_PROGRESS = ZeroMetric
    /\ response = NoAnswer
    /\ dequeue_count = 0
    /\ set_calls = <<>>
    /\ put_count = ZeroMetric
    /\ get_calls = <<>>
    /\ proc_calls = <<>>

\* ------------------------------------------------------------------------
\* translate(): lines 233-272
\* ------------------------------------------------------------------------

\* The range check without its upper half.
Validate_no_upper_bound(p) ==
    IF ~model_loaded THEN 500
    ELSE IF p < MIN_PRIORITY THEN 400
    ELSE 0

\* The checks of lines 235-243: the status the request is rejected with, or
\* 0 when it passes both checks.
Validate(p) ==
    IF ~model_loaded THEN 500
    ELSE IF p < MIN_PRIORITY \/ p > MAX_PRIORITY THEN 400
    ELSE 0

\* The outcome of `await future` as the response (lines 264-272).
Outcome(fut) ==
    IF fut.state = "exception"
    THEN [status |-> 500, detail |-> fut.exception, body |-> NoResult]
    ELSE [status |-> 200, detail |-> "", body |-> fut.result]

\* A rejection that counts the request before checking it.
TranslateReject_counted(p) ==
    /\ shutdown = "none"
    /\ ~LoopBusy
    /\ Validate(p) # 0
    /\ response' = [NoAnswer EXCEPT !.kind = "reject", !.priority = p,
                                    !.status = Validate(p)]
    /\ REQUEST_COUNTER' =
          [q \in DOMAIN REQUEST_COUNTER \cup {p} |->
              IF q = p
              THEN (IF q \in DOMAIN REQUEST_COUNTER THEN REQUEST_COUNTER[q] ELSE 0) + 1
              ELSE REQUEST_COUNTER[q]]
    /\ UNCHANGED <<model_loaded, now, task_queue, unfinished_tasks, futures,
                   requests, worker, cancel_requested, shutdown,
                   LATENCY_HISTOGRAM, QUEUE_TIME_HISTOGRAM, IN_PROGRESS,
                   history>>

\* A request rejected by the checks (lines 235-243).
TranslateReject(p) ==
    /\ shutdown = "none"
    /\ ~LoopBusy
    /\ Validate(p) # 0
    /\ response' = [NoAnswer EXCEPT !.kind = "reject", !.priority = p,
                                    !.status = Validate(p)]
    /\ UNCHANGED <<model_loaded, now, task_queue, unfinished_tasks, futures,
                   requests, worker, cancel_requested, shutdown, metrics,
                   history>>

\* A request that passes the checks, up to the return of put() (lines
\* 245-256).  put() pushes the item onto the heap.  When the push raises
\* TypeError the request ends there with the framework's 500: the item is in
\* the heap, but put_nowait() has neither counted it nor woken the worker,
\* and line 262 is not reached.
TranslateAccept(p, t, clock) ==
    /\ shutdown = "none"
    /\ ~LoopBusy
    /\ Validate(p) = 0
    /\ Len(futures) < MaxJobs
    /\ clock \in ClockValues
    /\ now' = clock
    /\ LET f == Len(futures) + 1
           item == [priority |-> p, created_at |-> clock, text |-> t, future |-> f]
           r == heappush(task_queue, item)
       IN  /\ futures' = Append(futures, NewFuture)
           /\ set_calls' = Append(set_calls, 0)
           /\ get_calls' = Append(get_calls, 0)
           /\ proc_calls' = Append(proc_calls, 0)
           /\ put_count' = [put_count EXCEPT ![p] = @ + 1]
           /\ task_queue' = r.heap
           /\ IF r.raised
              THEN /\ requests' = Append(requests, EndedRequest)
                   /\ response' = [NoAnswer EXCEPT !.kind = "translate",
                                      !.priority = p, !.text = t,
                                      !.status = 500,
                                      !.detail = "Internal Server Error"]
                   /\ UNCHANGED <<unfinished_tasks, worker>>
              ELSE /\ requests' = Append(requests,
                        [priority |-> p, text |-> t, start_total |-> clock,
                         pc |-> "put"])
                   /\ response' = NoAnswer
                   /\ unfinished_tasks' = unfinished_tasks + 1
                   /\ worker' = IF worker.pc = "blocked" /\ ~cancel_requested
                                THEN [worker EXCEPT !.pc = "ready"]
                                ELSE worker
    /\ UNCHANGED <<model_loaded, cancel_requested, shutdown, metrics,
                   dequeue_count>>

\* The request goes on from put() to its suspension at `await future`
\* (lines 257-265): it counts itself in REQUEST_COUNTER.
TranslateCount(f) ==
    /\ f \in 1..Len(requests)
    /\ requests[f].pc = "put"
    /\ REQUEST_COUNTER' = [REQUEST_COUNTER EXCEPT ![requests[f].priority] = @ + 1]
    /\ requests' = [requests EXCEPT ![f].pc = "await"]
    /\ response' = NoAnswer
    /\ UNCHANGED <<model_loaded, now, task_queue, unfinished_tasks, futures,
                   worker, cancel_requested, shutdown, LATENCY_HISTOGRAM,
                   QUEUE_TIME_HISTOGRAM, IN_PROGRESS, history>>

\* translate() resumes from `await future` with the worker's outcome
\* (lines 264-272): an exception becomes a 500 carrying its description, a
\* result is timed into the latency histogram and returned.  The call ends
\* and its future is released.
TranslateResume(f, clock) ==
    /\ ~LoopBusy
    /\ f \in 1..Len(requests)
    /\ requests[f].pc = "await"
    /\ futures[f].state \in {"result", "exception"}
    /\ clock \in ClockValues
    /\ futures[f].state = "exception" => clock = now
    /\ now' = clock
    /\ response' = [NoAnswer EXCEPT !.kind = "translate",
                       !.priority = requests[f].priority,
                       !.text = requests[f].text,
                       !.status = Outcome(futures[f]).status,
                       !.detail = Outcome(futures[f]).detail,
                       !.body = Outcome(futures[f]).body,
                       !.total_latency =
                           IF futures[f].state = "result"
                           THEN clock - requests[f].start_total ELSE 0]
    /\ LATENCY_HISTOGRAM' =
          IF futures[f].state = "result"
          THEN Observe(LATENCY_HISTOGRAM, requests[f].priority)
          ELSE LATENCY_HISTOGRAM
    /\ requests' = [requests EXCEPT ![f] = EndedRequest]
    /\ futures' = [futures EXCEPT ![f] = Released]
    /\ UNCHANGED <<model_loaded, task_queue, unfinished_tasks, worker,
                   cancel_requested, shutdown, REQUEST_COUNTER,
                   QUEUE_TIME_HISTOGRAM, IN_PROGRESS, history>>

\* The request task is cancelled while it waits at `await future` (line 265):
\* the future it awaits is cancelled with it and no response is produced.
TranslateAbandon(f) ==
    /\ ~LoopBusy
    /\ f \in 1..Len(requests)
    /\ requests[f].pc = "await"
    /\ futures[f].state = "pending"
    /\ futures' = [futures EXCEPT ![f].state = "cancelled"]
    /\ requests' = [requests EXCEPT ![f] = EndedRequest]
    /\ response' = NoAnswer
    /\ UNCHANGED <<model_loaded, now, task_queue, unfinished_tasks, worker,
                   cancel_requested, shutdown, metrics, history>>

\* ------------------------------------------------------------------------
\* worker_loop(): lines 122-169
\* ------------------------------------------------------------------------

\* The result dictionary with the two texts in each other's place.
MakeResult_texts_swapped(item, proc_time, queue_time) ==
    [original_text |-> TranslatedText(item.text),
     translated_text |-> item.text,
     priority |-> item.priority,
     processing_time |-> proc_time,
     queued_time |-> queue_time,
     model_loaded |-> TRUE]

\* The result dictionary of lines 147-154.
MakeResult(item, proc_time, queue_time) ==
    [original_text |-> item.text,
     translated_text |-> TranslatedText(item.text),
     priority |-> item.priority,
     processing_time |-> proc_time,
     queued_time |-> queue_time,
     model_loaded |-> TRUE]

\* `if not future.cancelled(): future.set_result(result)` (lines 156-157).
\* A future that is done already refuses the call (InvalidStateError).
DeliverResult(fut, result) ==
    IF fut.state = "pending"
    THEN [fut EXCEPT !.state = "result", !.result = result]
    ELSE fut

\* `if not future.cancelled(): future.set_exception(e)` (lines 159-160).
DeliverException(fut, e) ==
    IF fut.state = "pending"
    THEN [fut EXCEPT !.state = "exception", !.exception = e]
    ELSE fut

\* A worker that takes the next item while it still holds one.
AtGet_while_processing == worker.pc \in {"ready", "loop", "dequeued"}

\* The worker is about to run line 130: at its first step, or back at the
\* top of `while True`.
AtGet == worker.pc \in {"ready", "loop"}

\* A loop that an error in its body ends.
AfterLoopError_exits == "exited"

\* Where the worker is after `except Exception` (lines 168-169) has logged an
\* error raised in the loop body: back at the top of `while True`.
AfterLoopError == "loop"

\* A worker that a requested cancellation does not reach.
MustCancel_ignored == FALSE

\* worker_task.cancel() has been called and the worker has not run since:
\* its next step raises CancelledError at the await of line 130 instead of
\* going on in get().
MustCancel == cancel_requested

\* The cancellation requested by shutdown_event reaches the worker where it
\* is suspended, in get(): CancelledError, line 165, break.
WorkerCancelled ==
    /\ worker.pc \in {"ready", "blocked"}
    /\ ~TranslateRunning
    /\ MustCancel
    /\ worker' = [worker EXCEPT !.pc = "exited"]
    /\ cancel_requested' = FALSE
    /\ response' = NoAnswer
    /\ UNCHANGED <<model_loaded, now, task_queue, unfinished_tasks, futures,
                   requests, shutdown, metrics, history>>

\* `await task_queue.get()` and lines 131-142.  On an empty queue the worker
\* suspends.  Otherwise heappop runs at once; when it raises TypeError the
\* handler of line 168 logs it and the loop calls get() again; when it
\* returns, the queue time is observed and the in-progress counter
\* incremented.
WorkerGet(clock) ==
    /\ AtGet
    /\ ~TranslateRunning
    /\ ~MustCancel
    /\ clock \in ClockValues
    /\ IF task_queue = <<>>
       THEN /\ worker' = [worker EXCEPT !.pc = "blocked"]
            /\ clock = now
            /\ UNCHANGED <<now, task_queue, QUEUE_TIME_HISTOGRAM, IN_PROGRESS,
                           dequeue_count, get_calls>>
       ELSE LET r == heappop(task_queue)
                p == r.item.priority
            IN  /\ task_queue' = r.heap
                /\ IF r.raised
                   THEN /\ worker' = [worker EXCEPT !.pc = AfterLoopError]
                        /\ clock = now
                        /\ UNCHANGED <<now, QUEUE_TIME_HISTOGRAM, IN_PROGRESS,
                                       dequeue_count, get_calls>>
                   ELSE /\ now' = clock
                        /\ worker' = [pc |-> "dequeued", item |-> r.item,
                                      start_proc |-> clock,
                                      queue_time |-> clock - r.item.created_at]
                        /\ QUEUE_TIME_HISTOGRAM' =
                               Observe(QUEUE_TIME_HISTOGRAM, p)
                        /\ IN_PROGRESS' = [IN_PROGRESS EXCEPT ![p] = @ + 1]
                        /\ dequeue_count' = dequeue_count + 1
                        /\ get_calls' = [get_calls EXCEPT ![r.item.future] = @ + 1]
    /\ response' = NoAnswer
    /\ UNCHANGED <<model_loaded, unfinished_tasks, futures, requests,
                   cancel_requested, shutdown, REQUEST_COUNTER,
                   LATENCY_HISTOGRAM, set_calls, put_count, proc_calls>>

\* Lines 144-163 and 168-169.  translate_text returns or raises (it raises
\* whenever the model is not loaded); the outcome is delivered to the item's
\* future unless that future was cancelled.  In the finally clause
\* IN_PROGRESS is a prometheus Counter, which has no dec(): the call raises
\* AttributeError, task_done() is not reached, and the handler of line 168
\* logs the error and the loop goes on.  A future whose translate() call has
\* ended already is released once the worker is through with it.
WorkerProcess(ok, clock) ==
    /\ worker.pc = "dequeued"
    /\ ok => model_loaded
    /\ clock \in ClockValues
    /\ ~ok => clock = now
    /\ now' = clock
    /\ LET f == worker.item.future
           proc_time == clock - worker.start_proc
           called == futures[f].state # "cancelled"
           fut == IF ok
                  THEN DeliverResult(futures[f],
                           MakeResult(worker.item, proc_time, worker.queue_time))
                  ELSE DeliverException(futures[f], ProcessorError)
       IN  /\ futures' = [futures EXCEPT ![f] =
                  IF requests[f].pc = "done" THEN Released ELSE fut]
           /\ set_calls' = IF called THEN [set_calls EXCEPT ![f] = @ + 1]
                           ELSE set_calls
           /\ proc_calls' = [proc_calls EXCEPT ![f] = @ + 1]
    /\ worker' = [IdleWorker EXCEPT !.pc = AfterLoopError]
    /\ response' = NoAnswer
    /\ UNCHANGED <<model_loaded, task_queue, unfinished_tasks, requests,
                   cancel_requested, shutdown, metrics, dequeue_count,
                   put_count, get_calls>>

\* ------------------------------------------------------------------------
\* shutdown_event(): lines 206-216
\* ------------------------------------------------------------------------

\* worker_task.cancel() (line 211), up to the suspension at line 213.
ShutdownCancel ==
    /\ shutdown = "none"
    /\ ~LoopBusy
    /\ cancel_requested' = TRUE
    /\ shutdown' = "awaiting"
    /\ response' = NoAnswer
    /\ UNCHANGED <<model_loaded, now, task_queue, unfinished_tasks, futures,
                   requests, worker, metrics, history>>

\* `await worker_task` returns once the worker has left its loop.
ShutdownComplete ==
    /\ shutdown = "awaiting"
    /\ worker.pc = "exited"
    /\ shutdown' = "complete"
    /\ response' = NoAnswer
    /\ UNCHANGED <<model_loaded, now, task_queue, unfinished_tasks, futures,
                   requests, worker, cancel_requested, metrics, history>>

\* ------------------------------------------------------------------------
\* health(): lines 223-230
\* ------------------------------------------------------------------------
Health ==
    /\ response' = [NoAnswer EXCEPT !.kind = "health", !.status = 200,
                                    !.model_loaded = model_loaded,
                                    !.queue_size = Len(task_queue)]
    /\ UNCHANGED <<model_loaded, now, task_queue, unfinished_tasks, futures,
                   requests, worker, cancel_requested, shutdown, metrics,
                   history>>

Next ==
    \/ \E p \in ReqPriorities : TranslateReject(p)
    \/ \E p \in ReqPriorities, t \in Texts, clock \in 0..MaxTime :
          TranslateAccept(p, t, clock)
    \/ \E f \in 1..MaxJobs : TranslateCount(f)
    \/ \E f \in 1..MaxJobs, clock \in 0..MaxTime : TranslateResume(f, clock)
    \/ \E f \in 1..MaxJobs : TranslateAbandon(f)
    \/ \E clock \in 0..MaxTime : WorkerGet(clock)
    \/ \E ok \in BOOLEAN, clock \in 0..MaxTime : WorkerProcess(ok, clock)
    \/ WorkerCancelled
    \/ ShutdownCancel
    \/ ShutdownComplete
    \/ Health

Spec == Init /\ [][Next]_vars

\* The event loop runs every task that is ready: a worker whose cancellation
\* is pending is stepped, and shutdown_event is resumed once the task it
\* awaits is done.
FairSpec == Spec /\ WF_vars(WorkerCancelled) /\ WF_vars(ShutdownComplete)

TypeOK ==
    /\ model_loaded \in BOOLEAN
    /\ now \in 0..MaxTime
    /\ Len(task_queue) <= MaxJobs
    /\ Len(futures) = Len(requests)
    /\ Len(set_calls) = Len(futures)
    /\ Len(get_calls) = Len(futures)
    /\ Len(proc_calls) = Len(futures)
    /\ \A f \in 1..Len(requests) : requests[f].pc \in {"put", "await", "done"}
    /\ worker.pc \in {"ready", "blocked", "loop", "dequeued", "exited"}
    /\ shutdown \in {"none", "awaiting", "complete"}
    /\ response.kind \in {"none", "reject", "translate", "health"}

\* ------------------------------------------------------------------------
\* Vocabulary of the properties
\* ------------------------------------------------------------------------

\* Request f still waits at `await future` for an outcome nobody has set.
AwaitingPending(f) ==
    /\ requests[f].pc = "await"
    /\ futures[f].state = "pending"

\* Item a is to be served no later than item b: lower priority number
\* first, and within a priority the earlier submission first (futures are
\* numbered in submission order).
ServedBefore(a, b) ==
    \/ a.priority < b.priority
    \/ a.priority = b.priority /\ a.future <= b.future

\* This step is a dequeue: get() returns an item to the worker.
DequeueStep == worker.pc # "dequeued" /\ worker'.pc = "dequeued"

OutOfRange(p) == p < MIN_PRIORITY \/ p > MAX_PRIORITY

\* ------------------------------------------------------------------------
\* C1.  Jobs enqueued with no dequeue in between leave the queue in
\* ascending priority order, and jobs of equal priority in the order they
\* were enqueued.  The worker empties the queue without yielding to any
\* translate() call, so every run of dequeues is of this kind, and the claim
\* says: every step that takes an item out of the queue hands the worker the
\* item that precedes all queued items in (priority, submission) order.
\* ------------------------------------------------------------------------
C1_StableSortOrder ==
    [][Len(task_queue') < Len(task_queue) =>
          /\ worker'.pc = "dequeued"
          /\ \A i \in 1..Len(task_queue) :
                ServedBefore(worker'.item, task_queue[i])]_vars

\* ------------------------------------------------------------------------
\* C2.  Every dequeue returns a job of the lowest priority number queued at
\* that moment; and when a priority-3 job is dequeued, no priority-0 job
\* submitted after it (hence while it was queued) is still waiting to be
\* served.
\* ------------------------------------------------------------------------
C2_LowestPriorityFirst ==
    [][DequeueStep =>
          /\ \A i \in 1..Len(task_queue) :
                worker'.item.priority <= task_queue[i].priority
          /\ worker'.item.priority = MAX_PRIORITY =>
                \A a \in (worker'.item.future + 1)..Len(requests) :
                    ~(AwaitingPending(a) /\ requests[a].priority = MIN_PRIORITY)]_vars

\* ------------------------------------------------------------------------
\* C3.  Every accepted job is eventually dequeued and its future resolved.
\* Once the worker has emptied the queue and is suspended in get(), only a
\* new submission wakes it, so by then every job submitted so far must have
\* had its future resolved: no request still awaits a pending future.
\* ------------------------------------------------------------------------
C3_EveryJobResolved ==
    (worker.pc = "blocked" /\ task_queue = <<>>) =>
        \A f \in 1..Len(requests) : ~AwaitingPending(f)

\* ------------------------------------------------------------------------
\* C4.  A future is given an outcome at most once, only by the worker, and
\* an outcome once set never changes (the future is released unchanged when
\* its translate() call has consumed it).
\* ------------------------------------------------------------------------
C4_ResolvedOnce ==
    /\ [](\A f \in 1..Len(futures) : set_calls[f] <= 1)
    /\ [][\A f \in 1..Len(futures) :
            /\ futures[f].state \in {"result", "exception"} =>
                  \/ futures'[f] = futures[f]
                  \/ /\ futures'[f] = Released
                     /\ requests[f].pc = "await"
                     /\ requests'[f].pc = "done"
            /\ (futures[f].state = "pending"
                    /\ futures'[f].state \in {"result", "exception"}) =>
                  /\ worker.pc = "dequeued"
                  /\ worker.item.future = f
                  /\ worker'.pc = "loop"]_vars

C4_Witness ==
    \E f \in 1..Len(futures) :
        /\ futures[f].state \in {"result", "exception"}
        /\ set_calls[f] = 1
        /\ requests[f].pc = "await"

\* ------------------------------------------------------------------------
\* C5.  After a shutdown with a job still queued the caller of that job
\* observes cancellation: its future does not stay pending.  When
\* shutdown_event has completed the worker has exited and no code of the
\* service runs any more, so by then no request may await a pending future.
\* ------------------------------------------------------------------------
C5_NoPendingAfterShutdown ==
    shutdown = "complete" =>
        \A f \in 1..Len(requests) : ~AwaitingPending(f)

\* ------------------------------------------------------------------------
\* C6.  When the processor fails on a job, its future gets the failure and
\* its caller a 500 carrying the error description; the worker stays in its
\* loop and still has every other unserved job in its queue to serve.
\* ------------------------------------------------------------------------
C6_FailureIsolated ==
    [][\A f \in 1..Len(futures) :
          /\ (futures[f].state = "pending" /\ futures'[f].state = "exception") =>
                /\ futures'[f].exception = ProcessorError
                /\ worker'.pc = "loop"
                /\ \A g \in 1..Len(requests) :
                      AwaitingPending(g) /\ g # f => g \in QueuedFutures
          /\ (futures[f].state = "exception" /\ futures'[f] = Released) =>
                /\ response'.kind = "translate"
                /\ response'.status = 500
                /\ response'.detail = ProcessorError]_vars

\* ------------------------------------------------------------------------
\* C7.  As claimed: a submission with a priority outside [0,3] is answered
\* with 400 (and is never queued), whatever the state of the service.
\* ------------------------------------------------------------------------
C7_OutOfRangeIs400 ==
    /\ (response.kind = "reject" /\ OutOfRange(response.priority)) =>
           response.status = 400
    /\ \A i \in 1..Len(task_queue) : ~OutOfRange(task_queue[i].priority)
    /\ ~(response.kind = "translate" /\ OutOfRange(response.priority))

\* C7 as amended: such a submission is answered with 400 when the model and
\* tokenizer are loaded and with 500 when they are not, and is never queued.
C7_OutOfRangeRejected ==
    /\ (response.kind = "reject" /\ OutOfRange(response.priority)) =>
           response.status = (IF model_loaded THEN 400 ELSE 500)
    /\ \A i \in 1..Len(task_queue) : ~OutOfRange(task_queue[i].priority)
    /\ ~(response.kind = "translate" /\ OutOfRange(response.priority))

C7_Witness ==
    /\ response.kind = "reject"
    /\ response.priority = MAX_PRIORITY + 1
    /\ response.status = 400
    /\ task_queue # <<>>

\* ------------------------------------------------------------------------
\* C8.  A rejected submission changes nothing: no job, no future, the queue
\* and every metric as they were.
\* ------------------------------------------------------------------------
C8_RejectChangesNothing ==
    [][response'.kind = "reject" =>
          UNCHANGED <<task_queue, unfinished_tasks, futures, requests, worker,
                      REQUEST_COUNTER, LATENCY_HISTOGRAM, QUEUE_TIME_HISTOGRAM,
                      IN_PROGRESS, history>>]_vars

C8_Witness ==
    /\ response.kind = "reject"
    /\ response.status = 400
    /\ task_queue # <<>>
    /\ \E p \in PriorityLabels : REQUEST_COUNTER[p] > 0

\* ------------------------------------------------------------------------
\* C9.  The queue size health() reports is the number of jobs enqueued and
\* not yet dequeued (jobs put into the queue minus jobs get() has returned),
\* never negative.
\* ------------------------------------------------------------------------
C9_HealthReportsBacklog ==
    response.kind = "health" =>
        /\ response.queue_size = Len(futures) - dequeue_count
        /\ response.queue_size >= 0

\* ------------------------------------------------------------------------
\* C10.  A success response carries the caller's own text and priority and
\* the processor's output for that text.
\* ------------------------------------------------------------------------
C10_OwnOutcome ==
    (response.kind = "translate" /\ response.status = 200) =>
        /\ response.body.original_text = response.text
        /\ response.body.translated_text = TranslatedText(response.text)
        /\ response.body.priority = response.priority

C10_Witness ==
    /\ response.kind = "translate"
    /\ response.status = 200
    /\ \E g \in 1..Len(requests) :
          /\ requests[g].pc = "await"
          /\ requests[g].text # response.text
          /\ requests[g].priority # response.priority

\* ------------------------------------------------------------------------
\* More vocabulary
\* ------------------------------------------------------------------------

\* The sum of a per-priority metric over its labels.
RECURSIVE SumTo(_, _)
SumTo(m, p) == IF p < MIN_PRIORITY THEN 0 ELSE m[p] + SumTo(m, p - 1)

MetricTotal(m) == SumTo(m, MAX_PRIORITY)

\* ------------------------------------------------------------------------
\* C11.  The submission counter is incremented before the job is enqueued:
\* in every state, also one that health() or metrics() reads from its
\* thread, the counter of each priority is at least the number of jobs of
\* that priority put into the queue so far; and a submission is counted
\* once at most.
\* ------------------------------------------------------------------------
C11_CountedBeforeEnqueue ==
    /\ \A p \in PriorityLabels : REQUEST_COUNTER[p] >= put_count[p]
    /\ MetricTotal(REQUEST_COUNTER) <= Len(futures)

\* ------------------------------------------------------------------------
\* C12.  The in-flight metric goes up at dequeue and down when the job's
\* processing ends: it is 0 for every priority whenever the worker waits in
\* get(), and summed over the priorities it is 0 or 1 in every state.
\* ------------------------------------------------------------------------
C12_InFlightBalanced ==
    /\ worker.pc = "blocked" => \A p \in PriorityLabels : IN_PROGRESS[p] = 0
    /\ MetricTotal(IN_PROGRESS) \in {0, 1}

\* ------------------------------------------------------------------------
\* C13.  The processor is never invoked concurrently: at most one job is
\* between its dequeue and the end of its processing, no job is dequeued
\* while another is there, and translate_text runs only in the worker's
\* processing step, on the item the worker holds.
\* ------------------------------------------------------------------------
C13_ProcessorExclusive ==
    /\ [](Cardinality({f \in 1..Len(futures) : get_calls[f] > proc_calls[f]}) <= 1)
    /\ [][/\ worker.pc = "dequeued" => dequeue_count' = dequeue_count
          /\ \A f \in 1..Len(futures) :
                proc_calls'[f] # proc_calls[f] =>
                    /\ worker.pc = "dequeued"
                    /\ worker.item.future = f
                    /\ worker'.pc # "dequeued"
                    /\ ~TranslateRunning]_vars

C13_Witness ==
    /\ worker.pc = "dequeued"
    /\ task_queue # <<>>
    /\ \E f \in 1..Len(futures) : proc_calls[f] = 1
    /\ response.kind = "health"

\* ------------------------------------------------------------------------
\* C14.  A worker cancelled while it is suspended in get() leaves its loop
\* at once: from the cancellation on nothing is dequeued, the processor is
\* not called and no future is resolved, whether or not a job was put into
\* the queue after the worker suspended; the worker's next step is its
\* exit, and shutdown_event then completes.
\* ------------------------------------------------------------------------
C14_CancelledIdleExits ==
    /\ [][(cancel_requested \/ worker.pc = "exited") =>
              /\ UNCHANGED <<task_queue, dequeue_count, get_calls, proc_calls,
                             set_calls>>
              /\ worker' # worker => worker'.pc = "exited"]_vars
    /\ (shutdown = "awaiting" ~> shutdown = "complete")

C14_Witness ==
    /\ shutdown = "complete"
    /\ worker.pc = "exited"
    /\ task_queue # <<>>
    /\ \E f \in 1..Len(futures) : AwaitingPending(f) /\ f \in QueuedFutures
    /\ \E f \in 1..Len(futures) : proc_calls[f] = 1

\* ------------------------------------------------------------------------
\* C15.  A request abandoned before the worker resolves it: its job stays in
\* the queue, is still dequeued and the processor still run on it; the
\* delivery to the cancelled future is skipped without an error and the
\* worker stays in its loop for the next job.  "Still dequeued" in its
\* finite form: once the worker has emptied the queue and waits in get(), no
\* abandoned job is left that the processor has not run on.
\* ------------------------------------------------------------------------
C15_AbandonedJobStaysQueued ==
    [][\A f \in 1..Len(futures) :
          (futures[f].state = "pending" /\ futures'[f].state = "cancelled") =>
              task_queue' = task_queue]_vars

C15_DeliveryToCancelledIsNoOp ==
    [][\A f \in 1..Len(futures) :
          (futures[f].state = "cancelled" /\ proc_calls'[f] # proc_calls[f]) =>
              /\ proc_calls'[f] = 1
              /\ get_calls[f] = 1
              /\ set_calls'[f] = 0
              /\ futures'[f] = Released
              /\ worker'.pc = "loop"]_vars

C15_AbandonedJobProcessed ==
    /\ C15_AbandonedJobStaysQueued
    /\ C15_DeliveryToCancelledIsNoOp
    /\ []((worker.pc = "blocked" /\ task_queue = <<>>) =>
              \A f \in 1..Len(futures) : futures[f].state # "cancelled")

\* ------------------------------------------------------------------------
\* C16.  The worker loop ends only through cancellation: while shutdown has
\* not cancelled it, the worker is waiting at get() or handling a job,
\* whatever has failed in the loop body (the processor, a metric call, the
\* queue's comparison), and its exit is always the delivery of a requested
\* cancellation.
\* ------------------------------------------------------------------------
C16_ExitsOnlyWhenCancelled ==
    /\ [](shutdown = "none" =>
              worker.pc \in {"ready", "blocked", "loop", "dequeued"})
    /\ [][(worker'.pc = "exited" /\ worker.pc # "exited") =>
              /\ cancel_requested
              /\ shutdown = "awaiting"
              /\ worker.pc \in {"ready", "blocked"}]_vars

C16_Witness ==
    /\ shutdown = "none"
    /\ worker.pc = "blocked"
    /\ MetricTotal(IN_PROGRESS) = 2
    /\ \E f \in 1..Len(futures) : futures[f].state = "exception"
    /\ \E f \in 1..Len(futures) :
          get_calls[f] = 0 /\ f \notin QueuedFutures /\ AwaitingPending(f)

\* The positions of the queue that hold the item of future f.
QueuePositions(f) == {i \in 1..Len(task_queue) : task_queue[i].future = f}

\* ------------------------------------------------------------------------
\* C17.  A job is put into the queue once, by the translate() call that
\* created it, is dequeued at most once and processed at most once; once
\* dequeued it is never in the queue again, and a processor failure puts
\* nothing back.
\* ------------------------------------------------------------------------
C17_AtMostOnce ==
    /\ [](\A f \in 1..Len(futures) :
              /\ get_calls[f] <= 1
              /\ proc_calls[f] <= get_calls[f]
              /\ Cardinality(QueuePositions(f)) <= 1
              /\ get_calls[f] = 1 => QueuePositions(f) = {})
    /\ [][/\ Len(task_queue') > Len(task_queue) =>
                /\ Len(futures') = Len(futures) + 1
                /\ Len(task_queue') = Len(task_queue) + 1
                /\ QueuedFutures' = QueuedFutures \cup {Len(futures')}
          /\ Len(futures') > Len(futures) => Len(futures') \in QueuedFutures'
          /\ (\E f \in 1..Len(futures) : proc_calls'[f] # proc_calls[f]) =>
                task_queue' = task_queue]_vars

C17_Witness ==
    /\ worker.pc = "loop"
    /\ task_queue # <<>>
    /\ \E f \in 1..Len(futures) :
          /\ futures[f].state = "exception"
          /\ get_calls[f] = 1
          /\ proc_calls[f] = 1

\* ------------------------------------------------------------------------
\* C18.  The enqueue of a valid submission always succeeds: the step that
\* creates the job's future puts the job into the queue without raising
\* (the queue counts it and the request goes on, with no error response),
\* and the request then counts itself, so that whenever no translate() call
\* is between its put and its await every job put has been counted.
\* ------------------------------------------------------------------------
C18_EnqueueAlwaysSucceeds ==
    /\ [][Len(futures') > Len(futures) =>
              /\ requests'[Len(futures')].pc = "put"
              /\ unfinished_tasks' = unfinished_tasks + 1
              /\ response'.kind = "none"]_vars
    /\ [](~TranslateRunning =>
              \A p \in PriorityLabels : REQUEST_COUNTER[p] = put_count[p])

\* ------------------------------------------------------------------------
\* C19.  As claimed: with a clock that never goes back, a success response
\* has queued_time >= 0 and processing_time > 0, and the latency translate
\* records is at least their sum.
\* ------------------------------------------------------------------------
C19_TimesPositive ==
    (response.kind = "translate" /\ response.status = 200) =>
        /\ response.body.queued_time >= 0
        /\ response.body.processing_time > 0
        /\ response.total_latency >=
               response.body.queued_time + response.body.processing_time

\* C19 as amended: processing_time is not negative; it is 0 when the two
\* clock reads around the processor call return the same value.
C19_TimesNotNegative ==
    (response.kind = "translate" /\ response.status = 200) =>
        /\ response.body.queued_time >= 0
        /\ response.body.processing_time >= 0
        /\ response.total_latency >=
               response.body.queued_time + response.body.processing_time

C19_Witness ==
    /\ response.kind = "translate"
    /\ response.status = 200
    /\ response.body.queued_time > 0
    /\ response.body.processing_time = 0
    /\ response.total_latency = response.body.queued_time

\* This step ends a translate() call with the outcome of its job.
OutcomeStep ==
    /\ response'.kind = "translate"
    /\ response'.status = 200 \/ response'.detail = ProcessorError

\* ------------------------------------------------------------------------
\* C20.  As claimed: a request that receives its job's outcome, success or
\* processor failure, makes exactly one latency observation under its
\* priority, and nothing else observes a latency; a dequeue makes exactly
\* one queue-time observation under the job's priority, and nothing else
\* does.
\* ------------------------------------------------------------------------
C20_LatencyOnEveryOutcome ==
    [][/\ LATENCY_HISTOGRAM' =
             IF OutcomeStep
             THEN [LATENCY_HISTOGRAM EXCEPT ![response'.priority] = @ + 1]
             ELSE LATENCY_HISTOGRAM
       /\ QUEUE_TIME_HISTOGRAM' =
             IF DequeueStep
             THEN [QUEUE_TIME_HISTOGRAM EXCEPT ![worker'.item.priority] = @ + 1]
             ELSE QUEUE_TIME_HISTOGRAM]_vars

\* C20 as amended: the latency observation is made for a success only; a
\* request that receives a processor failure makes none.
C20_LatencyOnSuccess ==
    [][/\ LATENCY_HISTOGRAM' =
             IF OutcomeStep /\ response'.status = 200
             THEN [LATENCY_HISTOGRAM EXCEPT ![response'.priority] = @ + 1]
             ELSE LATENCY_HISTOGRAM
       /\ QUEUE_TIME_HISTOGRAM' =
             IF DequeueStep
             THEN [QUEUE_TIME_HISTOGRAM EXCEPT ![worker'.item.priority] = @ + 1]
             ELSE QUEUE_TIME_HISTOGRAM]_vars

C20_Witness ==
    /\ response.kind = "translate"
    /\ response.detail = ProcessorError
    /\ \E p \in PriorityLabels \ {response.priority} :
          /\ LATENCY_HISTOGRAM[p] = 1
          /\ QUEUE_TIME_HISTOGRAM[p] = 1
    /\ LATENCY_HISTOGRAM[response.priority] = 0
    /\ QUEUE_TIME_HISTOGRAM[response.priority] = 1

====
